---- MODULE Spec2Model ----
(***************************************************************************)
(* NTLMPasswordSprayer of src/tools/py/ntlm_spray_pass.py: the collector   *)
(* thread (password_spray / spray_multiple_passwords), the worker threads  *)
(* of the ThreadPoolExecutor running _attempt_authentication, the lock     *)
(* that guards the three result lists, and a discrete clock for the        *)
(* time.sleep calls.                                                       *)
(***************************************************************************)
EXTENDS Integers, Sequences, FiniteSets, TLC

\* ---- bounds of the model ------------------------------------------------
MaxUsers == 3
MaxPasswords == 2
MaxThreads == 2
MaxDelay == 1
\* Attempts of one campaign: len(users) * len(passwords).
MaxAttempts == 4
\* Width of one pass: len(users) * max_threads * (delay + 1).
MaxLoad == 18
\* export_results is checked for lists of up to these lengths.
MaxSuccessful == 2
MaxFailed == 12
MaxErrors == 2

\* ---- program constants (NTLMPasswordSprayer.__init__) --------------------
HTTP_AUTH_SUCCEED_CODE == 200
HTTP_AUTH_FAILED_CODE == 401
HTTP_FORBIDDEN_CODE == 403
\* self.failed_attempts[:10], line 391
PreviewLimit == 10

\* ---- inputs ---------------------------------------------------------------
AllUsers == <<"alice", "bob", "carol", "dave", "erin">>
AllPasswords == <<"Summer2024!", "Winter2024!", "Spring2025!", "Autumn2025!">>

Min(a, b) == IF a < b THEN a ELSE b

\* The username lists: the first n names, n = 0 .. MaxUsers.
UserLists == {SubSeq(AllUsers, 1, n) : n \in 0..Min(MaxUsers, Len(AllUsers))}

\* The password lists handed to spray_multiple_passwords (a single
\* password_spray call is the list of length 1), and the empty secret.
PasswordLists ==
    {SubSeq(AllPasswords, 1, n) : n \in 0..Min(MaxPasswords, Len(AllPasswords))}
        \cup {<<"">>}

\* urlparse(url): a target with scheme and netloc, and one with neither.
Urls == {[scheme |-> "https", netloc |-> "target.example"],
         [scheme |-> "", netloc |-> ""]}

\* What session.get can do: return a response with a status code, or raise.
Response(code) == [kind |-> "response", status_code |-> code, text |-> ""]
Raised(kind, text) == [kind |-> kind, status_code |-> 0, text |-> text]
NoRaw == [kind |-> "none", status_code |-> 0, text |-> ""]

AuthenticatorOutcomes ==
    {Response(HTTP_AUTH_SUCCEED_CODE), Response(HTTP_AUTH_FAILED_CODE),
     Response(HTTP_FORBIDDEN_CODE),
     Raised("RequestException", "Read timed out."),
     Raised("Exception", "unexpected failure")}

ProbeOutcomes ==
    {Response(HTTP_AUTH_SUCCEED_CODE), Response(HTTP_AUTH_FAILED_CODE),
     Response(HTTP_FORBIDDEN_CODE),
     Raised("RequestException", "Connection refused")}

VARIABLES
    users, passwords, url, delay_between_attempts, max_threads,
    successful_credentials, failed_attempts, errors,
    lock,
    futures,
    pc, i, collected,
    initial_success_count, initial_failed_count, initial_error_count,
    summary, total_results,
    sleep_left, since_completion,
    probe_kind, auth_calls,
    new_success_count, new_failed_count, snapshot_points,
    report,
    pass_sleeps, campaign_sleeps,
    session_cookies,
    args, usernames, response, main_pc, cli_log

config == <<users, passwords, url, delay_between_attempts, max_threads>>
buckets == <<successful_credentials, failed_attempts, errors>>
initial_counts == <<initial_success_count, initial_failed_count, initial_error_count>>
clock == <<sleep_left, since_completion>>
snap == <<new_success_count, new_failed_count, snapshot_points>>
sleeps == <<pass_sleeps, campaign_sleeps>>
cli == <<args, usernames, response, main_pc, cli_log>>
vars == <<config, buckets, lock, futures, pc, i, collected, initial_counts,
          summary, total_results, clock, probe_kind, auth_calls, snap,
          report, sleeps, session_cookies, cli>>

\* No report file was written.
NoReport == [written |-> FALSE]

\* ---- SprayResult (dataclass) ---------------------------------------------
None == "None"

\* The sprayer was constructed directly, not from a command line.
NoArgs == [password |-> None, passwords |-> None]

SprayResult(username, password, success, status_code, error_message) ==
    [username |-> username, password |-> password, success |-> success,
     status_code |-> status_code, error_message |-> error_message]

\* f"Unexpected status code: {response.status_code}"
UnexpectedStatusMessage(code) ==
    IF code = HTTP_FORBIDDEN_CODE THEN "Unexpected status code: 403"
    ELSE "Unexpected status code"

\* ---- _validate_url --------------------------------------------------------
\* urlparse(url) gave a scheme and a netloc.
UrlWellFormed(u) == u.scheme # "" /\ u.netloc # ""

\* The probe session.get(url) is made only for a well-formed URL.
ProbesFor(u) == IF UrlWellFormed(u) THEN ProbeOutcomes ELSE {NoRaw}

\* Mutant: the probe's RequestException is swallowed and the URL accepted.
_validate_url_IgnoreProbeFailure(u, probe) == UrlWellFormed(u)

\* False for a malformed URL and when the probe raises RequestException;
\* True for every status code the probe returns.
_validate_url(u, probe) ==
    IF ~UrlWellFormed(u) THEN FALSE
    ELSE IF probe.kind = "response"
         THEN IF probe.status_code \in {HTTP_AUTH_FAILED_CODE, HTTP_FORBIDDEN_CODE}
              THEN TRUE
              ELSE IF probe.status_code = HTTP_AUTH_SUCCEED_CODE THEN TRUE
              ELSE TRUE
         ELSE FALSE

\* ---- _attempt_authentication: the result built from the raw outcome ------
\* Mutant: the result for an unexpected status code gets no error message.
AttemptResult_UnexpectedNoMessage(username, password, raw) ==
    IF raw.kind = "response"
    THEN IF raw.status_code = HTTP_AUTH_SUCCEED_CODE
         THEN SprayResult(username, password, TRUE, raw.status_code, None)
         ELSE SprayResult(username, password, FALSE, raw.status_code, None)
    ELSE SprayResult(username, password, FALSE, 0, raw.text)

AttemptResult(username, password, raw) ==
    IF raw.kind = "response"
    THEN IF raw.status_code = HTTP_AUTH_SUCCEED_CODE
         THEN SprayResult(username, password, TRUE, raw.status_code, None)
         ELSE IF raw.status_code = HTTP_AUTH_FAILED_CODE
         THEN SprayResult(username, password, FALSE, raw.status_code, None)
         ELSE SprayResult(username, password, FALSE, raw.status_code,
                          UnexpectedStatusMessage(raw.status_code))
    ELSE SprayResult(username, password, FALSE, 0, raw.text)

\* Mutant: a result with an unexpected status code is appended to no list.
BucketOf_UnexpectedDropped(raw) ==
    IF raw.kind = "response"
    THEN IF raw.status_code = HTTP_AUTH_SUCCEED_CODE THEN "successful_credentials"
         ELSE IF raw.status_code = HTTP_AUTH_FAILED_CODE THEN "failed_attempts"
         ELSE "none"
    ELSE "errors"

\* Mutant: an exception of session.get is not caught, so nothing is appended.
BucketOf_FaultDropped(raw) ==
    IF raw.kind = "response"
    THEN IF raw.status_code = HTTP_AUTH_SUCCEED_CODE THEN "successful_credentials"
         ELSE IF raw.status_code = HTTP_AUTH_FAILED_CODE THEN "failed_attempts"
         ELSE "errors"
    ELSE "none"

\* Mutant: an unexpected status code is taken for a success.
BucketOf_UnexpectedAsSuccess(raw) ==
    IF raw.kind = "response"
    THEN IF raw.status_code = HTTP_AUTH_FAILED_CODE THEN "failed_attempts"
         ELSE "successful_credentials"
    ELSE "errors"

\* Mutant: a RequestException (a timeout among them) counts as a failed login.
BucketOf_TimeoutAsRejected(raw) ==
    IF raw.kind = "response"
    THEN IF raw.status_code = HTTP_AUTH_SUCCEED_CODE THEN "successful_credentials"
         ELSE IF raw.status_code = HTTP_AUTH_FAILED_CODE THEN "failed_attempts"
         ELSE "errors"
    ELSE IF raw.kind = "RequestException" THEN "failed_attempts"
    ELSE "errors"

\* ... and the list it is appended to.
BucketOf(raw) ==
    IF raw.kind = "response"
    THEN IF raw.status_code = HTTP_AUTH_SUCCEED_CODE THEN "successful_credentials"
         ELSE IF raw.status_code = HTTP_AUTH_FAILED_CODE THEN "failed_attempts"
         ELSE "errors"
    ELSE "errors"

\* ---- the executor ---------------------------------------------------------
Passes == 1..Len(passwords)
UserIdx == 1..Len(users)

FutureStates == {"unsubmitted", "pending", "running", "responded", "locked", "finished"}

InState(p, S) == {k \in UserIdx : futures[p][k].state \in S}

\* Worker threads that are inside _attempt_authentication.
BusyWorkers == {pk \in Passes \X UserIdx :
                  futures[pk[1]][pk[2]].state \in {"running", "responded", "locked"}}

\* Mutant: a thread per call, without a limit.
PoolHasIdleWorker_Unbounded == TRUE

\* ThreadPoolExecutor(max_workers=self.max_threads): a thread is free.
PoolHasIdleWorker == Cardinality(BusyWorkers) < max_threads

\* Mutant: a call that raised is put back at the head of the queue.
HeadOfQueue_Requeue(p, k) ==
    \/ /\ futures[p][k].state = "pending"
       /\ \A j \in UserIdx : j < k => futures[p][j].state # "pending"
    \/ /\ futures[p][k].state = "finished"
       /\ futures[p][k].raw.kind \in {"RequestException", "Exception"}

\* Mutant: a free worker takes any queued work item, not the oldest.
HeadOfQueue_Unordered(p, k) == futures[p][k].state = "pending"

\* The work queue is FIFO: the next work item is the oldest pending one.
HeadOfQueue(p, k) ==
    /\ futures[p][k].state = "pending"
    /\ \A j \in UserIdx : j < k => futures[p][j].state # "pending"

SetFuture(p, k, st, raw) ==
    [futures EXCEPT ![p][k] = [state |-> st, raw |-> raw]]

\* ---- summaries ------------------------------------------------------------
ZeroSummary == [valid_credentials |-> 0, failed_attempts |-> 0, errors |-> 0]

\* Mutant: the cumulative lengths are returned.
PassSummary_Cumulative ==
    [valid_credentials |-> Len(successful_credentials),
     failed_attempts |-> Len(failed_attempts),
     errors |-> Len(errors)]

\* lines 311-324: new_*_count = len(list) - initial_*_count, read one after
\* the other; the dict is built when the third has been read.
PassSummary ==
    [valid_credentials |-> new_success_count,
     failed_attempts |-> new_failed_count,
     errors |-> Len(errors) - initial_error_count]

\* The lengths of the three lists, as one triple.
BucketSizes == <<Len(successful_credentials), Len(failed_attempts), Len(errors)>>

\* The collector is between the first and the last of three len() reads.
ReadingCounts == pc \in {"snap_failed", "snap_error", "calc_failed", "calc_error"}

\* Mutant: the totals are overwritten with the last pass's dict.
AddSummary_Overwrite(t, r) == r

AddSummary(t, r) ==
    [valid_credentials |-> t.valid_credentials + r.valid_credentials,
     failed_attempts |-> t.failed_attempts + r.failed_attempts,
     errors |-> t.errors + r.errors]

\* ---- initial state: after NTLMPasswordSprayer.__init__ -------------------
Init ==
    /\ users \in UserLists
    /\ passwords \in PasswordLists
    /\ url \in Urls
    /\ Len(users) * Len(passwords) <= MaxAttempts
    /\ delay_between_attempts \in {0, MaxDelay}
    /\ max_threads \in {1, MaxThreads}
    /\ Len(users) * max_threads * (delay_between_attempts + 1) <= MaxLoad
    /\ successful_credentials = <<>>
    /\ failed_attempts = <<>>
    /\ errors = <<>>
    /\ lock = <<>>
    /\ futures = [p \in Passes |-> [k \in UserIdx |->
                     [state |-> "unsubmitted", raw |-> NoRaw]]]
    /\ pc = "start"
    /\ i = 0
    /\ collected = 0
    /\ initial_success_count = 0
    /\ initial_failed_count = 0
    /\ initial_error_count = 0
    /\ summary = [p \in Passes |-> ZeroSummary]
    /\ total_results = ZeroSummary
    /\ sleep_left = 0
    /\ since_completion = delay_between_attempts
    /\ probe_kind = [p \in Passes |-> "none"]
    /\ auth_calls = [p \in Passes |-> [k \in UserIdx |-> 0]]
    /\ new_success_count = 0
    /\ new_failed_count = 0
    /\ snapshot_points = {}
    /\ report = NoReport
    /\ pass_sleeps = [p \in Passes |-> 0]
    /\ campaign_sleeps = 0
    /\ session_cookies = {}
    /\ args = NoArgs
    /\ usernames = users
    /\ response = None
    /\ main_pc = "none"
    /\ cli_log = <<>>

\* ---- the collector thread -------------------------------------------------

\* Mutant: the loop body is entered even for an empty password list.
StartCampaign_NoEmptyCheck ==
    /\ pc = "start"
    /\ total_results' = ZeroSummary
    /\ pc' = "spray"
    /\ i' = 1
    /\ UNCHANGED <<config, buckets, lock, futures, collected, initial_counts,
                   summary, clock, probe_kind, auth_calls,
                   snap, report, sleeps, session_cookies, cli>>

\* spray_multiple_passwords, lines 337-342: the totals start at zero and the
\* loop takes the first password, if there is one.
StartCampaign ==
    /\ pc = "start"
    /\ total_results' = ZeroSummary
    /\ IF passwords = <<>>
       THEN pc' = "finished" /\ i' = i
       ELSE pc' = "spray" /\ i' = 1
    /\ UNCHANGED <<config, buckets, lock, futures, collected, initial_counts,
                   summary, clock, probe_kind, auth_calls,
                   snap, report, sleeps, session_cookies, cli>>

\* password_spray, lines 275-285: the unauthenticated probe of the URL; on
\* failure the all-zero dict is returned, otherwise the first of the three
\* lengths is remembered.
BeginPass ==
    /\ pc = "spray"
    /\ \E probe \in ProbesFor(url) :
         /\ probe_kind' = [probe_kind EXCEPT ![i] = probe.kind]
         /\ IF _validate_url(url, probe)
            THEN /\ initial_success_count' = Len(successful_credentials)
                 /\ snapshot_points' = {BucketSizes}
                 /\ pc' = "snap_failed"
                 /\ UNCHANGED summary
            ELSE /\ summary' = [summary EXCEPT ![i] = ZeroSummary]
                 /\ pc' = "accumulate"
                 /\ UNCHANGED <<initial_success_count, snapshot_points, report, sleeps,
                   session_cookies, cli>>
    /\ UNCHANGED <<config, buckets, lock, futures, i, collected,
                   initial_failed_count, initial_error_count, total_results,
                   clock, auth_calls, new_success_count, new_failed_count,
                   report, sleeps, session_cookies, cli>>

\* line 286: initial_failed_count = len(self.failed_attempts)
ReadInitialFailed ==
    /\ pc = "snap_failed"
    /\ initial_failed_count' = Len(failed_attempts)
    /\ pc' = "snap_error"
    /\ UNCHANGED <<config, buckets, lock, futures, i, collected,
                   initial_success_count, initial_error_count, summary,
                   total_results, clock, probe_kind, auth_calls, snap, report,
                   sleeps, session_cookies, cli>>

\* lines 287-290: initial_error_count = len(self.errors), and the executor
\* is entered.
ReadInitialError ==
    /\ pc = "snap_error"
    /\ initial_error_count' = Len(errors)
    /\ collected' = 0
    /\ pc' = IF users = <<>> THEN "collect" ELSE "submit"
    /\ UNCHANGED <<config, buckets, lock, futures, i, initial_success_count,
                   initial_failed_count, summary, total_results, clock,
                   probe_kind, auth_calls, snap, report, sleeps,
                   session_cookies, cli>>

\* lines 292-295: executor.submit for the next user of self.users.
Submit(k) ==
    /\ pc = "submit"
    /\ futures[i][k].state = "unsubmitted"
    /\ \A j \in UserIdx : j < k => futures[i][j].state # "unsubmitted"
    /\ futures' = SetFuture(i, k, "pending", NoRaw)
    /\ pc' = IF k = Len(users) THEN "collect" ELSE "submit"
    /\ UNCHANGED <<config, buckets, lock, i, collected, initial_counts, summary,
                   total_results, clock, probe_kind, auth_calls,
                   snap, report, sleeps, session_cookies, cli>>

\* as_completed has a finished future that was not yet yielded.
FutureReady(p) == Cardinality(InState(p, {"finished"})) > collected

\* Mutant: no sleep after the last future of the pass.
CollectFuture_NoSleepAfterLast ==
    /\ pc = "collect"
    /\ collected < Len(users)
    /\ FutureReady(i)
    /\ collected' = collected + 1
    /\ IF delay_between_attempts > 0 /\ collected + 1 < Len(users)
       THEN /\ pc' = "sleep" /\ sleep_left' = delay_between_attempts
            /\ pass_sleeps' = [pass_sleeps EXCEPT ![i] = @ + 1]
       ELSE /\ pc' = "collect" /\ sleep_left' = sleep_left
            /\ pass_sleeps' = pass_sleeps
    /\ UNCHANGED <<config, buckets, lock, futures, i, initial_counts, summary,
                   total_results, since_completion, probe_kind, auth_calls,
                   snap, report, campaign_sleeps, session_cookies, cli>>

\* lines 298-305: one iteration of the as_completed loop: future.result(),
\* then time.sleep(delay) when the delay is positive.
CollectFuture ==
    /\ pc = "collect"
    /\ collected < Len(users)
    /\ FutureReady(i)
    /\ collected' = collected + 1
    /\ IF delay_between_attempts > 0
       THEN /\ pc' = "sleep" /\ sleep_left' = delay_between_attempts
            /\ pass_sleeps' = [pass_sleeps EXCEPT ![i] = @ + 1]
       ELSE /\ pc' = "collect" /\ sleep_left' = sleep_left
            /\ pass_sleeps' = pass_sleeps
    /\ UNCHANGED <<config, buckets, lock, futures, i, initial_counts, summary,
                   total_results, since_completion, probe_kind, auth_calls,
                   snap, report, campaign_sleeps, session_cookies, cli>>

\* Mutant: after each sleep the collector lowers the configured delay.
WakeCollector_LowersDelay ==
    /\ pc = "sleep"
    /\ sleep_left = 0
    /\ pc' = "collect"
    /\ delay_between_attempts' = 0
    /\ UNCHANGED <<users, passwords, url, max_threads, buckets, lock, futures,
                   i, collected, initial_counts, summary, total_results, clock,
                   probe_kind, auth_calls, snap, report, sleeps,
                   session_cookies, cli>>

\* time.sleep returns.
WakeCollector ==
    /\ pc = "sleep"
    /\ sleep_left = 0
    /\ pc' = "collect"
    /\ UNCHANGED <<config, buckets, lock, futures, i, collected, initial_counts,
                   summary, total_results, clock, probe_kind, auth_calls,
                   snap, report, sleeps, session_cookies, cli>>

\* Mutant: the pass goes on to its summary after the first result.
PassDone_FirstCompleted(p) == collected >= 1 \/ users = <<>>

\* Mutant: the pass returns once everything is submitted, without waiting.
PassDone_NoJoin(p) ==
    \A k \in UserIdx : futures[p][k].state # "unsubmitted"

\* The as_completed loop has yielded every future and the with block's
\* executor.shutdown(wait=True) has joined the workers.
PassDone(p) ==
    /\ collected = Len(users)
    /\ \A k \in UserIdx : futures[p][k].state = "finished"

\* line 311, after the with block: new_success_count is computed.
FinishPass ==
    /\ pc = "collect"
    /\ PassDone(i)
    /\ new_success_count' = Len(successful_credentials) - initial_success_count
    /\ snapshot_points' = {BucketSizes}
    /\ pc' = "calc_failed"
    /\ UNCHANGED <<config, buckets, lock, futures, i, collected, initial_counts,
                   summary, total_results, clock, probe_kind, auth_calls,
                   new_failed_count, report, sleeps, session_cookies, cli>>

\* line 312: new_failed_count is computed.
CalcFailed ==
    /\ pc = "calc_failed"
    /\ new_failed_count' = Len(failed_attempts) - initial_failed_count
    /\ pc' = "calc_error"
    /\ UNCHANGED <<config, buckets, lock, futures, i, collected, initial_counts,
                   summary, total_results, clock, probe_kind, auth_calls,
                   new_success_count, snapshot_points, report, sleeps,
                   session_cookies, cli>>

\* lines 313-324: new_error_count is computed and the dict of the three is
\* returned; the locals are gone.
ReturnSummary ==
    /\ pc = "calc_error"
    /\ summary' = [summary EXCEPT ![i] = PassSummary]
    /\ new_success_count' = 0
    /\ new_failed_count' = 0
    /\ pc' = "accumulate"
    /\ UNCHANGED <<config, buckets, lock, futures, i, collected, initial_counts,
                   total_results, clock, probe_kind, auth_calls,
                   snapshot_points, report, sleeps, session_cookies, cli>>

\* Mutant: the loop ends at the first pass that returns the all-zero dict.
Accumulate_StopOnZero ==
    /\ pc = "accumulate"
    /\ total_results' = AddSummary(total_results, summary[i])
    /\ IF summary[i] = ZeroSummary
       THEN /\ pc' = "finished" /\ i' = i /\ sleep_left' = sleep_left
            /\ campaign_sleeps' = campaign_sleeps
       ELSE IF i < Len(passwords) /\ delay_between_attempts > 0
       THEN /\ pc' = "pwsleep" /\ sleep_left' = delay_between_attempts /\ i' = i
            /\ campaign_sleeps' = campaign_sleeps + 1
       ELSE IF i < Len(passwords)
       THEN /\ pc' = "spray" /\ i' = i + 1 /\ sleep_left' = sleep_left
            /\ campaign_sleeps' = campaign_sleeps
       ELSE /\ pc' = "finished" /\ i' = i /\ sleep_left' = sleep_left
            /\ campaign_sleeps' = campaign_sleeps
    /\ UNCHANGED <<config, buckets, lock, futures, collected, initial_counts,
                   summary, since_completion, probe_kind, auth_calls,
                   snap, report, pass_sleeps, session_cookies, cli>>

\* Mutant: the loop sleeps after every password, the last one included.
Accumulate_SleepAfterLast ==
    /\ pc = "accumulate"
    /\ total_results' = AddSummary(total_results, summary[i])
    /\ IF delay_between_attempts > 0
       THEN /\ pc' = "pwsleep" /\ sleep_left' = delay_between_attempts /\ i' = i
            /\ campaign_sleeps' = campaign_sleeps + 1
       ELSE IF i < Len(passwords)
       THEN /\ pc' = "spray" /\ i' = i + 1 /\ sleep_left' = sleep_left
            /\ campaign_sleeps' = campaign_sleeps
       ELSE /\ pc' = "finished" /\ i' = i /\ sleep_left' = sleep_left
            /\ campaign_sleeps' = campaign_sleeps
    /\ UNCHANGED <<config, buckets, lock, futures, collected, initial_counts,
                   summary, since_completion, probe_kind, auth_calls,
                   snap, report, pass_sleeps, session_cookies, cli>>

\* spray_multiple_passwords, lines 347-354: add the pass's dict to the
\* totals, then sleep if more passwords remain and the delay is positive.
Accumulate ==
    /\ pc = "accumulate"
    /\ total_results' = AddSummary(total_results, summary[i])
    /\ IF i < Len(passwords) /\ delay_between_attempts > 0
       THEN /\ pc' = "pwsleep" /\ sleep_left' = delay_between_attempts /\ i' = i
            /\ campaign_sleeps' = campaign_sleeps + 1
       ELSE IF i < Len(passwords)
       THEN /\ pc' = "spray" /\ i' = i + 1 /\ sleep_left' = sleep_left
            /\ campaign_sleeps' = campaign_sleeps
       ELSE /\ pc' = "finished" /\ i' = i /\ sleep_left' = sleep_left
            /\ campaign_sleeps' = campaign_sleeps
    /\ UNCHANGED <<config, buckets, lock, futures, collected, initial_counts,
                   summary, since_completion, probe_kind, auth_calls,
                   snap, report, pass_sleeps, session_cookies, cli>>

\* The sleep between two passwords returns; the loop takes the next one.
NextPassword ==
    /\ pc = "pwsleep"
    /\ sleep_left = 0
    /\ i' = i + 1
    /\ pc' = "spray"
    /\ UNCHANGED <<config, buckets, lock, futures, collected, initial_counts,
                   summary, total_results, clock, probe_kind, auth_calls,
                   snap, report, sleeps, session_cookies, cli>>

\* ---- Ctrl-C ---------------------------------------------------------------

\* Where a KeyboardInterrupt raised in the main thread leaves the campaign:
\* inside the with block of lines 290-308 the executor's __exit__ runs
\* shutdown(wait=True) before the exception goes on; in the probe of line 275
\* and in the sleep of line 354 it goes straight up to main.
InterruptTarget(at) ==
    IF at \in {"submit", "collect", "sleep"} THEN "shutdown"
    ELSE IF at = "spray" THEN "pass_raised"
    ELSE "sleep_raised"

\* The user presses Ctrl-C: KeyboardInterrupt is raised in the main thread.
\* It is not an Exception, so line 307 does not catch it; nothing in
\* password_spray or spray_multiple_passwords handles it.
Interrupt ==
    /\ pc \in {"spray", "submit", "collect", "sleep", "pwsleep"}
    /\ pc' = InterruptTarget(pc)
    /\ collected' = 0
    /\ sleep_left' = 0
    /\ UNCHANGED <<config, buckets, lock, futures, i, initial_counts, summary,
                   total_results, since_completion, probe_kind, auth_calls,
                   snap, report, sleeps, session_cookies, cli>>

\* executor.shutdown(wait=True) returns: every submitted work item has run to
\* its end, the queued ones included.
ExecutorJoined(p) ==
    \A k \in UserIdx : futures[p][k].state \in {"unsubmitted", "finished"}

\* The with block is left by the exception; main catches it at lines
\* 570-572, prints "Operation cancelled by user." and exits with status 0.
\* No dict was returned by password_spray and nothing is exported.
RaiseFromPass ==
    /\ pc = "shutdown"
    /\ ExecutorJoined(i)
    /\ pc' = "pass_raised"
    /\ UNCHANGED <<config, buckets, lock, futures, i, collected, initial_counts,
                   summary, total_results, clock, probe_kind, auth_calls,
                   snap, report, sleeps, session_cookies, cli>>

\* ---- the worker threads: _attempt_authentication --------------------------

\* A free worker takes the oldest work item and calls session.get with
\* HttpNtlmAuth (lines 164-176).
StartAttempt(p, k) ==
    /\ HeadOfQueue(p, k)
    /\ PoolHasIdleWorker
    /\ futures' = SetFuture(p, k, "running", NoRaw)
    /\ auth_calls' = [auth_calls EXCEPT ![p][k] = @ + 1]
    /\ UNCHANGED <<config, buckets, lock, pc, i, collected, initial_counts,
                   summary, total_results, clock, probe_kind,
                   snap, report, sleeps, session_cookies, cli>>

\* The cookies a response brings. self.session (line 99) is the one
\* requests.Session all workers call get on (line 171), and a Session keeps
\* the cookies of every response it receives. The modelled server hands out
\* a session cookie when a login succeeds.
CookiesOf(raw) ==
    IF raw.kind = "response" /\ raw.status_code = HTTP_AUTH_SUCCEED_CODE
    THEN {"session"} ELSE {}

\* session.get returns a response or raises; the SprayResult is built
\* (lines 178-188, 197-203, 215-222, 231-239, 248-256).
Respond(p, k, raw) ==
    /\ futures[p][k].state = "running"
    /\ futures' = SetFuture(p, k, "responded", raw)
    /\ since_completion' = 0
    /\ session_cookies' = session_cookies \cup CookiesOf(raw)
    /\ UNCHANGED <<config, buckets, lock, pc, i, collected, initial_counts,
                   summary, total_results, sleep_left, probe_kind, auth_calls,
                   snap, report, sleeps, cli>>

\* Mutant: the with statement is entered without waiting for the lock.
AcquireLock_NoWait(p, k) ==
    /\ futures[p][k].state = "responded"
    /\ lock' = <<p, k>>
    /\ futures' = SetFuture(p, k, "locked", futures[p][k].raw)
    /\ UNCHANGED <<config, buckets, pc, i, collected, initial_counts, summary,
                   total_results, clock, probe_kind, auth_calls, snap, report,
                   sleeps, session_cookies, cli>>

\* with self._lock: entered.
AcquireLock(p, k) ==
    /\ futures[p][k].state = "responded"
    /\ lock = <<>>
    /\ lock' = <<p, k>>
    /\ futures' = SetFuture(p, k, "locked", futures[p][k].raw)
    /\ UNCHANGED <<config, buckets, pc, i, collected, initial_counts, summary,
                   total_results, clock, probe_kind, auth_calls,
                   snap, report, sleeps, session_cookies, cli>>

\* Mutant: the append writes back a stale list, overwriting the last entry.
Record_LostUpdate(b, result) ==
    LET Stale(seq) == Append(SubSeq(seq, 1, Len(seq) - 1), result)
    IN  /\ successful_credentials' =
             IF b = "successful_credentials"
             THEN Stale(successful_credentials) ELSE successful_credentials
        /\ failed_attempts' =
             IF b = "failed_attempts" THEN Stale(failed_attempts) ELSE failed_attempts
        /\ errors' = IF b = "errors" THEN Stale(errors) ELSE errors

\* Mutant: the result is inserted at the front of the list.
Record_Prepend(b, result) ==
    /\ successful_credentials' =
         IF b = "successful_credentials"
         THEN <<result>> \o successful_credentials ELSE successful_credentials
    /\ failed_attempts' =
         IF b = "failed_attempts"
         THEN <<result>> \o failed_attempts ELSE failed_attempts
    /\ errors' = IF b = "errors" THEN <<result>> \o errors ELSE errors

\* The append of lines 191 / 206 / 225 / 242 / 259 to the list named b.
Record(b, result) ==
    /\ successful_credentials' =
         IF b = "successful_credentials"
         THEN Append(successful_credentials, result) ELSE successful_credentials
    /\ failed_attempts' =
         IF b = "failed_attempts"
         THEN Append(failed_attempts, result) ELSE failed_attempts
    /\ errors' = IF b = "errors" THEN Append(errors, result) ELSE errors

\* Mutant: the lock is not released after the append.
AppendRelease_KeepsLock(p, k) ==
    /\ futures[p][k].state = "locked"
    /\ lock = <<p, k>>
    /\ Record(BucketOf(futures[p][k].raw),
              AttemptResult(users[k], passwords[p], futures[p][k].raw))
    /\ lock' = lock
    /\ futures' = SetFuture(p, k, "finished", futures[p][k].raw)
    /\ snapshot_points' =
         IF ReadingCounts
         THEN snapshot_points \cup {<<Len(successful_credentials'),
                                      Len(failed_attempts'), Len(errors')>>}
         ELSE snapshot_points
    /\ UNCHANGED <<config, pc, i, collected, initial_counts, summary,
                   total_results, clock, probe_kind, auth_calls,
                   new_success_count, new_failed_count, report, sleeps,
                   session_cookies, cli>>

\* The append inside the with block, the release of the lock, and the return
\* of the result, which finishes the future.
AppendRelease(p, k) ==
    /\ futures[p][k].state = "locked"
    /\ lock = <<p, k>>
    /\ Record(BucketOf(futures[p][k].raw),
              AttemptResult(users[k], passwords[p], futures[p][k].raw))
    /\ lock' = <<>>
    /\ futures' = SetFuture(p, k, "finished", futures[p][k].raw)
    /\ snapshot_points' =
         IF ReadingCounts
         THEN snapshot_points \cup {<<Len(successful_credentials'),
                                      Len(failed_attempts'), Len(errors')>>}
         ELSE snapshot_points
    /\ UNCHANGED <<config, pc, i, collected, initial_counts, summary,
                   total_results, clock, probe_kind, auth_calls,
                   new_success_count, new_failed_count, report, sleeps,
                   session_cookies, cli>>

\* ---- time -----------------------------------------------------------------

\* One time unit passes: a sleeping collector gets closer to waking, and the
\* time since the last completed authentication call grows (kept up to the
\* configured delay, beyond which it makes no difference).
Tick ==
    /\ sleep_left > 0 \/ since_completion < delay_between_attempts
    /\ sleep_left' = IF sleep_left > 0 THEN sleep_left - 1 ELSE 0
    /\ since_completion' = Min(since_completion + 1, delay_between_attempts)
    /\ UNCHANGED <<config, buckets, lock, futures, pc, i, collected,
                   initial_counts, summary, total_results, probe_kind, auth_calls,
                   snap, report, sleeps, session_cookies, cli>>

Next ==
    \/ StartCampaign
    \/ BeginPass
    \/ ReadInitialFailed
    \/ ReadInitialError
    \/ \E k \in UserIdx : Submit(k)
    \/ CollectFuture
    \/ WakeCollector
    \/ FinishPass
    \/ CalcFailed
    \/ ReturnSummary
    \/ Accumulate
    \/ NextPassword
    \/ Interrupt
    \/ RaiseFromPass
    \/ \E p \in Passes : \E k \in UserIdx : StartAttempt(p, k)
    \/ \E p \in Passes : \E k \in UserIdx :
          \E raw \in AuthenticatorOutcomes : Respond(p, k, raw)
    \/ \E p \in Passes : \E k \in UserIdx : AcquireLock(p, k)
    \/ \E p \in Passes : \E k \in UserIdx : AppendRelease(p, k)
    \/ Tick

Spec == Init /\ [][Next]_vars

TypeOK ==
    /\ pc \in {"start", "spray", "snap_failed", "snap_error", "submit",
               "collect", "sleep", "calc_failed", "calc_error", "accumulate",
               "pwsleep", "finished", "shutdown", "pass_raised", "sleep_raised",
               "exported"}
    /\ i \in 0..Len(passwords)
    /\ collected \in 0..Len(users)
    /\ sleep_left \in 0..delay_between_attempts
    /\ since_completion \in 0..delay_between_attempts
    /\ \A p \in Passes : \A k \in UserIdx : futures[p][k].state \in FutureStates

\* ---- vocabulary of the properties -----------------------------------------

\* password_spray for passwords[p] has returned its dict.
PassReturned(p) ==
    \/ i > p
    \/ i = p /\ pc \in {"accumulate", "pwsleep", "finished", "sleep_raised"}

\* The endpoint passed validation in pass p: the URL is well formed and the
\* probe got a response.
Validated(p) == UrlWellFormed(url) /\ probe_kind[p] = "response"

\* Pass p returned early because validation failed.
Aborted(p) == PassReturned(p) /\ ~Validated(p)

\* How many records of seq are for (u, pw).
RecordsIn(seq, u, pw) ==
    Cardinality({n \in 1..Len(seq) : seq[n].username = u /\ seq[n].password = pw})

RecordsFor(u, pw) ==
    RecordsIn(successful_credentials, u, pw) + RecordsIn(failed_attempts, u, pw)
        + RecordsIn(errors, u, pw)

\* How many records of seq were made with the password pw.
RecordsWith(seq, pw) == Cardinality({n \in 1..Len(seq) : seq[n].password = pw})

SummaryTotal(r) == r.valid_credentials + r.failed_attempts + r.errors

BucketTotal == Len(successful_credentials) + Len(failed_attempts) + Len(errors)

AllFutures == Passes \X UserIdx

FuturesIn(S) == {pk \in AllFutures : futures[pk[1]][pk[2]].state \in S}

IsFault(raw) == raw.kind \in {"RequestException", "Exception"}

\* ---- C1 -------------------------------------------------------------------
\* C1 as stated: for a non-empty user list, a non-empty password and a
\* well-formed target URL, once the pass has returned every user has exactly
\* one record over the three lists and the pass's three counts add up to
\* len(users).
C1_EveryIdentityOnce_AsStated ==
    \A p \in Passes :
        (PassReturned(p) /\ UrlWellFormed(url) /\ users # <<>> /\ passwords[p] # "") =>
            /\ \A k \in UserIdx : RecordsFor(users[k], passwords[p]) = 1
            /\ SummaryTotal(summary[p]) = Len(users)

\* C1 amended: the same, for a pass whose endpoint validation succeeded.
C1_EveryIdentityOnce ==
    \A p \in Passes :
        (PassReturned(p) /\ Validated(p) /\ users # <<>> /\ passwords[p] # "") =>
            /\ \A k \in UserIdx : RecordsFor(users[k], passwords[p]) = 1
            /\ SummaryTotal(summary[p]) = Len(users)

C1_Witness ==
    /\ pc = "accumulate" /\ i = 2 /\ Validated(2) /\ Validated(1)
    /\ Len(users) = 2
    /\ SummaryTotal(summary[2]) = 2
    /\ summary[2].errors = 1 /\ summary[2].valid_credentials = 1

\* ---- C2 -------------------------------------------------------------------
\* C2: in every state the three lists together hold exactly one record per
\* attempt whose append has completed, and when the campaign has returned
\* that is the number of attempts that entered the locked append.
C2_NoLostOrDoubleInsert ==
    /\ BucketTotal = Cardinality(FuturesIn({"finished"}))
    /\ pc = "finished" => BucketTotal = Cardinality(FuturesIn({"locked", "finished"}))
    /\ \A pk \in AllFutures :
         RecordsFor(users[pk[2]], passwords[pk[1]]) =
            IF futures[pk[1]][pk[2]].state = "finished" THEN 1 ELSE 0

\* Two workers are at the append at once: one holds the lock, one waits.
C2_Witness ==
    /\ i \in Passes
    /\ max_threads = 2
    /\ \E k \in UserIdx : futures[i][k].state = "locked"
    /\ \E k \in UserIdx : futures[i][k].state = "responded"
    /\ BucketTotal >= 2

\* ---- C3 -------------------------------------------------------------------
\* C3: the number of session.get calls started and not yet returned never
\* exceeds max_threads.
C3_BoundedInFlight == Cardinality(FuturesIn({"running"})) <= max_threads

\* All workers are in a call while another user waits in the queue.
C3_Witness ==
    /\ Cardinality(FuturesIn({"running"})) = max_threads
    /\ FuturesIn({"pending"}) # {}

\* ---- C4 -------------------------------------------------------------------
\* C4: an authentication call is started only when at least
\* delay_between_attempts has passed since the last call completed.
C4_PacingGatesDispatch ==
    [][\A pk \in AllFutures :
          (futures[pk[1]][pk[2]].state = "pending"
             /\ futures'[pk[1]][pk[2]].state = "running")
          => since_completion >= delay_between_attempts]_vars

C6_OneOutcomePerAttempt ==
    \A pk \in AllFutures :
        LET f == futures[pk[1]][pk[2]]
            u == users[pk[2]]
            pw == passwords[pk[1]]
        IN  f.state = "finished" =>
              /\ RecordsFor(u, pw) = 1
              /\ RecordsIn(successful_credentials, u, pw) =
                   IF f.raw.kind = "response" /\ f.raw.status_code = 200
                   THEN 1 ELSE 0
              /\ RecordsIn(failed_attempts, u, pw) =
                   IF f.raw.kind = "response" /\ f.raw.status_code = 401
                   THEN 1 ELSE 0
              /\ RecordsIn(errors, u, pw) =
                   IF f.raw.kind = "response" /\ f.raw.status_code \in {200, 401}
                   THEN 0 ELSE 1

\* One pass classified an unexpected status and a success.
C6_Witness ==
    /\ i \in Passes
    /\ \E k \in UserIdx : /\ futures[i][k].state = "finished"
                          /\ futures[i][k].raw = Response(HTTP_FORBIDDEN_CODE)
    /\ \E k \in UserIdx : /\ futures[i][k].state = "finished"
                          /\ futures[i][k].raw = Response(HTTP_AUTH_SUCCEED_CODE)

\* ---- C7 -------------------------------------------------------------------
\* C7 as stated: session.get is called at most once per (user, password) of
\* a pass, and once the pass (to a well-formed target URL) has returned,
\* exactly once for each user.
C7_OneCallPerPair_AsStated ==
    \A p \in Passes : \A k \in UserIdx :
        /\ auth_calls[p][k] <= 1
        /\ (PassReturned(p) /\ UrlWellFormed(url)) => auth_calls[p][k] = 1

\* C7 amended: at most once always; exactly once for each user when a pass
\* whose validation succeeded has returned; never in a pass that validation
\* aborted.
C7_OneCallPerPair ==
    \A p \in Passes : \A k \in UserIdx :
        /\ auth_calls[p][k] <= 1
        /\ (PassReturned(p) /\ Validated(p)) => auth_calls[p][k] = 1
        /\ Aborted(p) => auth_calls[p][k] = 0

\* A pass returned in which a call ended in an error and was not repeated.
C7_Witness ==
    /\ pc = "accumulate" /\ Validated(i) /\ Len(users) = 2
    /\ summary[i].errors = 2
    /\ \A k \in UserIdx : auth_calls[i][k] = 1

\* ---- C8 -------------------------------------------------------------------
\* C8: the dict a pass returns counts the records made during that pass: per
\* list, the records made with the pass's password, which on return is the
\* list's length minus its length when the pass began.
C8_SummaryIsDelta ==
    /\ \A p \in Passes :
          PassReturned(p) =>
            /\ summary[p].valid_credentials =
                 RecordsWith(successful_credentials, passwords[p])
            /\ summary[p].failed_attempts = RecordsWith(failed_attempts, passwords[p])
            /\ summary[p].errors = RecordsWith(errors, passwords[p])
    /\ (pc = "accumulate" /\ Validated(i)) =>
            /\ summary[i].valid_credentials =
                 Len(successful_credentials) - initial_success_count
            /\ summary[i].failed_attempts = Len(failed_attempts) - initial_failed_count
            /\ summary[i].errors = Len(errors) - initial_error_count

\* The second pass returned and every list already held a record before it.
C8_Witness ==
    /\ pc = "accumulate" /\ i = 2 /\ Validated(2)
    /\ initial_success_count = 1 /\ initial_error_count = 1
    /\ summary[2].valid_credentials = 1 /\ summary[2].errors = 1
    /\ Len(successful_credentials) = 2

\* ---- C9 -------------------------------------------------------------------
\* C9: when an attempt of a later password has been submitted, no attempt of
\* an earlier password is queued, in flight or waiting to be recorded.
C9_PassesDoNotOverlap ==
    \A p \in Passes : \A q \in Passes :
        (p < q /\ \E j \in UserIdx : futures[q][j].state # "unsubmitted") =>
            \A k \in UserIdx : futures[p][k].state \in {"finished", "unsubmitted"}

\* The second password's attempts are in flight after the first's finished.
C9_Witness ==
    /\ i = 2
    /\ \A k \in UserIdx : futures[1][k].state = "finished"
    /\ Cardinality(InState(2, {"running"})) = 2

\* ---- C10 ------------------------------------------------------------------
\* C10 as stated: a pass with an empty user list or an empty password makes
\* no authentication call and leaves the three lists unchanged.  (The
\* statement's second half, that nothing else aborts a pass, is the
\* negation of Aborted(p) for every other pass.)
C10_EmptyInputAborts_AsStated ==
    \A p \in Passes :
        (users = <<>> \/ passwords[p] = "") =>
            /\ \A k \in UserIdx : auth_calls[p][k] = 0
            /\ RecordsWith(successful_credentials, passwords[p]) = 0
            /\ RecordsWith(failed_attempts, passwords[p]) = 0
            /\ RecordsWith(errors, passwords[p]) = 0

\* C10 amended: password_spray rejects neither; an empty user list gives the
\* all-zero dict with no call and no record; an empty password is tried for
\* every user like any other; a pass is aborted (no call, no record, all-zero
\* dict) exactly when endpoint validation fails.
C10_OnlyValidationAborts ==
    \A p \in Passes :
        PassReturned(p) =>
            /\ users = <<>> => (summary[p] = ZeroSummary /\ BucketTotal = 0)
            /\ Validated(p) =>
                 \A k \in UserIdx : /\ auth_calls[p][k] = 1
                                    /\ RecordsFor(users[k], passwords[p]) = 1
            /\ ~Validated(p) =>
                 /\ \A k \in UserIdx : /\ auth_calls[p][k] = 0
                                       /\ RecordsFor(users[k], passwords[p]) = 0
                 /\ summary[p] = ZeroSummary

\* A pass with the empty password returned after trying both users.
C10_Witness ==
    /\ pc = "accumulate" /\ passwords[i] = "" /\ Validated(i)
    /\ Len(users) = 2
    /\ SummaryTotal(summary[i]) = 2

\* ---- C11 ------------------------------------------------------------------
\* The sum of one field of the dicts returned by passes 1 .. n.
RECURSIVE SumValid(_), SumFailed(_), SumErrors(_)
SumValid(n) == IF n = 0 THEN 0 ELSE SumValid(n - 1) + summary[n].valid_credentials
SumFailed(n) == IF n = 0 THEN 0 ELSE SumFailed(n - 1) + summary[n].failed_attempts
SumErrors(n) == IF n = 0 THEN 0 ELSE SumErrors(n - 1) + summary[n].errors

\* The passes whose dict the loop of spray_multiple_passwords has added.
AccumulatedPasses ==
    IF pc \in {"pwsleep", "finished"} THEN i ELSE IF i = 0 THEN 0 ELSE i - 1

\* C11: while the campaign loop runs, and when it has returned, each field of
\* total_results is the sum of that field over the dicts of the passes
\* accumulated so far, and each such partial sum is at least the one before.
C11_TotalsAreRunningSum ==
    pc \in {"start", "spray", "snap_failed", "snap_error", "submit", "collect",
            "sleep", "calc_failed", "calc_error", "accumulate", "pwsleep",
            "finished"} =>
        /\ total_results.valid_credentials = SumValid(AccumulatedPasses)
        /\ total_results.failed_attempts = SumFailed(AccumulatedPasses)
        /\ total_results.errors = SumErrors(AccumulatedPasses)
        /\ \A n \in 1..AccumulatedPasses :
             /\ SumValid(n - 1) <= SumValid(n)
             /\ SumFailed(n - 1) <= SumFailed(n)
             /\ SumErrors(n - 1) <= SumErrors(n)

\* A campaign of two passes returned, each pass having found something.
C11_Witness ==
    /\ pc = "finished" /\ Len(passwords) = 2
    /\ summary[1].valid_credentials = 1 /\ summary[1].errors = 1
    /\ summary[2].valid_credentials = 1 /\ summary[2].failed_attempts = 1
    /\ total_results.valid_credentials = 2

\* ---- C12 ------------------------------------------------------------------
\* C12: with an empty password list the campaign never enters password_spray
\* (no probe, no submit, no call), returns all-zero totals and leaves the
\* three lists empty.
C12_EmptyCampaign ==
    passwords = <<>> =>
        /\ pc \in {"start", "finished"}
        /\ i = 0
        /\ total_results = ZeroSummary
        /\ BucketTotal = 0

\* The campaign over no password has returned, for a non-empty user list.
C12_Witness ==
    /\ passwords = <<>> /\ users # <<>> /\ pc = "finished"
    /\ total_results = ZeroSummary

\* ---- C13 ------------------------------------------------------------------
\* C13 as stated: once the interrupt has been observed during a pass, no
\* queued attempt starts its authentication call any more (the attempts in
\* flight finish and are recorded, and the pass returns a dict of what
\* completed).
C13_CancelStopsDispatch ==
    [][pc = "shutdown" =>
          \A pk \in AllFutures :
              ~(/\ futures[pk[1]][pk[2]].state = "pending"
                /\ futures'[pk[1]][pk[2]].state = "running")]_vars

\* ---- C14 ------------------------------------------------------------------
\* C14 as stated: when the interrupt came after some of the pass's users were
\* submitted, the pass has returned a dict whose three counts add up to at
\* most len(users), and no pass for a later password was begun.
C14_CancelledPassSummary ==
    (pc = "pass_raised" /\ InState(i, FutureStates \ {"unsubmitted"}) # {}) =>
        /\ PassReturned(i)
        /\ SummaryTotal(summary[i]) <= Len(users)
        /\ \A q \in Passes : q > i => probe_kind[q] = "none"

ReadTimeout == Raised("RequestException", "Read timed out.")

\* The futures whose authentication call timed out and whose append is done.
TimedOut ==
    {pk \in AllFutures : /\ futures[pk[1]][pk[2]].state = "finished"
                         /\ futures[pk[1]][pk[2]].raw = ReadTimeout}

\* The records of seq for user k of pass p.
RecordsOf(seq, pk) ==
    {seq[n] : n \in {m \in 1..Len(seq) : /\ seq[m].username = users[pk[2]]
                                         /\ seq[m].password = passwords[pk[1]]}}

\* C16 as stated: an attempt that timed out has its record in errors with the
\* message "timeout", and no record in failed_attempts or
\* successful_credentials.
C16_TimeoutMessage_AsStated ==
    \A pk \in TimedOut :
        /\ \E r \in RecordsOf(errors, pk) : r.error_message = "timeout"
        /\ RecordsOf(failed_attempts, pk) = {}
        /\ RecordsOf(successful_credentials, pk) = {}

\* C16 amended: an attempt that timed out has exactly one record, in errors,
\* with success False, status code 0 and the exception's own text as message,
\* and no record in failed_attempts or successful_credentials.
C16_TimeoutIsError ==
    \A pk \in TimedOut :
        /\ RecordsOf(errors, pk) =
              {SprayResult(users[pk[2]], passwords[pk[1]], FALSE, 0, ReadTimeout.text)}
        /\ RecordsIn(errors, users[pk[2]], passwords[pk[1]]) = 1
        /\ RecordsOf(failed_attempts, pk) = {}
        /\ RecordsOf(successful_credentials, pk) = {}

\* One user's call timed out while the other's login failed; both recorded.
C16_Witness ==
    /\ Cardinality(TimedOut) = 1
    /\ Len(errors) = 1 /\ errors[1].error_message = "Read timed out."
    /\ Len(failed_attempts) = 1

\* ---- C17 ------------------------------------------------------------------
\* Mutant: the pairs of the failed attempts are returned as well.
get_successful_credentials_WithFailed ==
    [n \in 1..(Len(successful_credentials) + Len(failed_attempts)) |->
        LET r == (successful_credentials \o failed_attempts)[n]
        IN  <<r.username, r.password>>]

\* Mutant: the pairs are returned in the order of the input lists.
get_successful_credentials_InputOrder ==
    LET Accepted == {<<successful_credentials[n].username,
                       successful_credentials[n].password>> :
                         n \in 1..Len(successful_credentials)}
        InOrder == [n \in 1..(Len(passwords) * Len(users)) |->
                       <<users[((n - 1) % Len(users)) + 1],
                         passwords[((n - 1) \div Len(users)) + 1]>>]
    IN  SelectSeq(InOrder, LAMBDA pair : pair \in Accepted)

\* get_successful_credentials, lines 363-370: the (username, password) pairs
\* of self.successful_credentials, in list order.
get_successful_credentials ==
    [n \in 1..Len(successful_credentials) |->
        <<successful_credentials[n].username, successful_credentials[n].password>>]

\* In pass p the server accepted user k's login and answered 401 to every
\* other user's.
AcceptsExactly(p, k) ==
    \A j \in UserIdx :
        futures[p][j].raw =
            IF j = k THEN Response(HTTP_AUTH_SUCCEED_CODE)
            ELSE Response(HTTP_AUTH_FAILED_CODE)

\* The pairs returned for the password pw.
AcceptedWith(pw) ==
    SelectSeq(get_successful_credentials, LAMBDA pair : pair[2] = pw)

\* C17: when a validated pass has returned in which the server accepted
\* exactly one user and rejected every other, get_successful_credentials
\* holds for that password exactly the one pair, the pass's dict counts
\* len(users) - 1 failed attempts and 0 errors, in whatever order the
\* attempts completed.
C17_OneAcceptedPair ==
    \A p \in Passes : \A k \in UserIdx :
        (PassReturned(p) /\ Validated(p) /\ AcceptsExactly(p, k)) =>
            /\ AcceptedWith(passwords[p]) = <<<<users[k], passwords[p]>>>>
            /\ summary[p].valid_credentials = 1
            /\ summary[p].failed_attempts = Len(users) - 1
            /\ summary[p].errors = 0

\* [alice, bob, carol] with "Summer2024!", bob accepted, and carol's attempt
\* completed before alice's.
C17_Witness ==
    /\ users = <<"alice", "bob", "carol">> /\ passwords = <<"Summer2024!">>
    /\ pc = "finished" /\ Validated(1) /\ AcceptsExactly(1, 2)
    /\ get_successful_credentials = <<<<"bob", "Summer2024!">>>>
    /\ Len(failed_attempts) = 2 /\ failed_attempts[1].username = "carol"
    /\ total_results = [valid_credentials |-> 1, failed_attempts |-> 2, errors |-> 0]

\* ---- export_results -------------------------------------------------------
\* Mutant: every failed attempt is written, without the limit.
ExportReport_NoLimit(s, f, e) ==
    [written |-> TRUE,
     successful_count |-> Len(s),
     successful |-> [n \in 1..Len(s) |-> <<s[n].username, s[n].password>>],
     failed_count |-> Len(f),
     failed |-> [n \in 1..Len(f) |->
                    <<f[n].username, f[n].password, f[n].status_code>>],
     more_failed |-> <<>>,
     errors_count |-> Len(e),
     errors |-> [n \in 1..Len(e) |->
                    <<e[n].username, e[n].password, e[n].error_message>>]]

\* What lines 380-400 write to the file, section by section: the count in
\* each heading, a line per successful credential, a line for each of the
\* first ten failed attempts, the "... and N more failed attempts" line when
\* there are more than ten, a line per error.
ExportReport(s, f, e) ==
    [written |-> TRUE,
     successful_count |-> Len(s),
     successful |-> [n \in 1..Len(s) |-> <<s[n].username, s[n].password>>],
     failed_count |-> Len(f),
     failed |-> [n \in 1..Len(SubSeq(f, 1, Min(PreviewLimit, Len(f)))) |->
                    <<f[n].username, f[n].password, f[n].status_code>>],
     more_failed |-> IF Len(f) > PreviewLimit
                     THEN <<Len(f) - PreviewLimit>> ELSE <<>>,
     errors_count |-> Len(e),
     errors |-> [n \in 1..Len(e) |->
                    <<e[n].username, e[n].password, e[n].error_message>>]]

\* export_results, lines 379-405: the file is written, or open() or a write
\* raises and the exception is logged (nothing usable is left in the file).
ExportResults ==
    /\ pc = "finished"
    /\ \/ report' = ExportReport(successful_credentials, failed_attempts, errors)
       \/ report' = NoReport
    /\ pc' = "exported"
    /\ UNCHANGED <<config, buckets, lock, futures, i, collected, initial_counts,
                   summary, total_results, clock, probe_kind, auth_calls, snap,
                   sleeps, session_cookies, cli>>

\* The n-th pair of users x passwords, the order in which a campaign run
\* with one thread records its attempts.
PairAt(n) ==
    [username |-> AllUsers[((n - 1) % Len(AllUsers)) + 1],
     password |-> AllPasswords[((n - 1) \div Len(AllUsers)) + 1]]

\* The records a finished campaign can hold for the n-th pair.
AcceptedRecord(n) ==
    AttemptResult(PairAt(n).username, PairAt(n).password,
                  Response(HTTP_AUTH_SUCCEED_CODE))
RejectedRecord(n) ==
    AttemptResult(PairAt(n).username, PairAt(n).password,
                  Response(HTTP_AUTH_FAILED_CODE))
ErrorRecord(n) ==
    AttemptResult(PairAt(n).username, PairAt(n).password,
                  IF n % 2 = 1 THEN Response(HTTP_FORBIDDEN_CODE)
                  ELSE Raised("RequestException", "Read timed out."))

\* The state after a campaign of AllUsers x AllPasswords that recorded ns
\* successes, nf failed attempts and ne errors.
InitExport ==
    /\ users = AllUsers
    /\ passwords = AllPasswords
    /\ url \in {u \in Urls : UrlWellFormed(u)}
    /\ delay_between_attempts = 0
    /\ max_threads = 1
    /\ \E ns \in 0..MaxSuccessful : \E nf \in 0..MaxFailed : \E ne \in 0..MaxErrors :
         /\ successful_credentials = [n \in 1..ns |-> AcceptedRecord(n)]
         /\ failed_attempts = [n \in 1..nf |-> RejectedRecord(ns + n)]
         /\ errors = [n \in 1..ne |-> ErrorRecord(ns + nf + n)]
         /\ total_results = [valid_credentials |-> ns, failed_attempts |-> nf,
                             errors |-> ne]
    /\ lock = <<>>
    /\ futures = [p \in Passes |-> [k \in UserIdx |->
                     [state |-> "unsubmitted", raw |-> NoRaw]]]
    /\ pc = "finished"
    /\ i = Len(passwords)
    /\ collected = 0
    /\ initial_success_count = 0
    /\ initial_failed_count = 0
    /\ initial_error_count = 0
    /\ summary = [p \in Passes |-> ZeroSummary]
    /\ sleep_left = 0
    /\ since_completion = 0
    /\ probe_kind = [p \in Passes |-> "response"]
    /\ auth_calls = [p \in Passes |-> [k \in UserIdx |-> 0]]
    /\ new_success_count = 0
    /\ new_failed_count = 0
    /\ snapshot_points = {}
    /\ report = NoReport
    /\ pass_sleeps = [p \in Passes |-> 0]
    /\ campaign_sleeps = 0
    /\ session_cookies = {}
    /\ args = NoArgs
    /\ usernames = users
    /\ response = None
    /\ main_pc = "none"
    /\ cli_log = <<>>

NextExport == ExportResults

SpecExport == InitExport /\ [][NextExport]_vars

\* ---- C18 ------------------------------------------------------------------
Range(seq) == {seq[n] : n \in 1..Len(seq)}

\* C18: a report that was written holds the three list lengths, the pair of
\* every successful credential, every error with its message, and of the
\* failed attempts the first ten in list order, followed by the number of
\* the remaining ones when there are more than ten (and by nothing otherwise).
C18_ExportReport ==
    (pc = "exported" /\ report.written) =>
        /\ report.successful_count = Len(successful_credentials)
        /\ report.failed_count = Len(failed_attempts)
        /\ report.errors_count = Len(errors)
        /\ Len(report.successful) = Len(successful_credentials)
        /\ \A r \in Range(successful_credentials) :
              <<r.username, r.password>> \in Range(report.successful)
        /\ Len(report.errors) = Len(errors)
        /\ \A r \in Range(errors) :
              <<r.username, r.password, r.error_message>> \in Range(report.errors)
        /\ Len(report.failed) =
              IF Len(failed_attempts) > PreviewLimit
              THEN PreviewLimit ELSE Len(failed_attempts)
        /\ \A n \in 1..Len(report.failed) :
              /\ report.failed[n][1] = failed_attempts[n].username
              /\ report.failed[n][2] = failed_attempts[n].password
        /\ report.more_failed =
              IF Len(failed_attempts) > PreviewLimit
              THEN <<Len(failed_attempts) - PreviewLimit>> ELSE <<>>

\* Twelve failed attempts were exported: ten listed, "2 more", with the
\* successful credentials and the errors in full.
C18_Witness ==
    /\ pc = "exported" /\ report.written
    /\ Len(failed_attempts) = MaxFailed /\ Len(report.failed) = PreviewLimit
    /\ report.more_failed = <<MaxFailed - PreviewLimit>>
    /\ Len(report.successful) = 2 /\ Len(report.errors) = 2
    /\ report.errors[2][3] = "Read timed out."

\* ---- C19 ------------------------------------------------------------------
\* C19: within a pass the users are submitted to the executor in the order of
\* self.users and their authentication calls are started in that order: when
\* a later user's attempt is submitted (started), every earlier user's is
\* submitted (started) too. Completions are not ordered.
C19_DispatchInInputOrder ==
    \A p \in Passes : \A j \in UserIdx : \A k \in UserIdx :
        j < k =>
            /\ futures[p][k].state # "unsubmitted" =>
                   futures[p][j].state # "unsubmitted"
            /\ futures[p][k].state \notin {"unsubmitted", "pending"} =>
                   futures[p][j].state \notin {"unsubmitted", "pending"}

\* The second user's attempt is recorded while the first user's call, started
\* before it, is still in flight, and the third is queued.
C19_Witness ==
    /\ Len(users) = 3 /\ i = 1 /\ pc = "collect"
    /\ futures[1][1].state = "running"
    /\ futures[1][2].state = "finished"
    /\ futures[1][3].state = "pending"
    /\ auth_calls[1] = <<1, 1, 0>>

\* ---- C20 ------------------------------------------------------------------
\* The worker that is inside "with self._lock", if any.
InAppend == FuturesIn({"locked"})

\* C20: at most one worker is inside the with block, it is the holder of the
\* lock, and it is not in its authentication call; every change of the three
\* lists is made by the holder of the lock, which releases it with the
\* append; so the lock never keeps another worker from its call.
C20_AppendsUnderLock ==
    /\ [](/\ Cardinality(InAppend) <= 1
          /\ \A pk \in AllFutures : pk \in InAppend <=> lock = pk
          /\ lock # <<>> => lock \in AllFutures)
    /\ [][buckets' # buckets =>
            /\ lock \in InAppend
            /\ lock' = <<>>
            /\ BucketTotal' = BucketTotal + 1
            /\ futures'[lock[1]][lock[2]].state = "finished"]_vars

\* One worker holds the lock for its append while another worker's
\* authentication call is in flight.
C20_Witness ==
    /\ max_threads = 2
    /\ lock # <<>>
    /\ Cardinality(InAppend) = 1
    /\ Cardinality(FuturesIn({"running"})) = 1
    /\ Cardinality(BusyWorkers) = max_threads

\* ---- C21 ------------------------------------------------------------------
\* a is an initial segment of b.
IsPrefix(a, b) == Len(a) <= Len(b) /\ SubSeq(b, 1, Len(a)) = a

\* C21: in every step of the campaign each of the three lists keeps what it
\* held as a prefix of what it holds afterwards: nothing is removed, moved or
\* overwritten, and a new pass does not empty a list.
C21_BucketsAppendOnly ==
    [][/\ IsPrefix(successful_credentials, successful_credentials')
       /\ IsPrefix(failed_attempts, failed_attempts')
       /\ IsPrefix(errors, errors')]_vars

\* The second pass has appended behind the first pass's records in two lists.
C21_Witness ==
    /\ i = 2 /\ Len(passwords) = 2
    /\ Len(failed_attempts) = 2 /\ Len(errors) = 2
    /\ failed_attempts[1].password = passwords[1]
    /\ failed_attempts[2].password = passwords[2]
    /\ errors[1].password = passwords[1]
    /\ errors[2].password = passwords[2]

\* ---- C22 ------------------------------------------------------------------
\* C22: the loop of spray_multiple_passwords has slept once after each pass
\* that is followed by another password when the delay is positive, never
\* after the pass of the last password, and never when the delay is 0; a
\* campaign that returned has slept len(passwords) - 1 times, or not at all.
C22_SleepBetweenPasses ==
    /\ delay_between_attempts = 0 => campaign_sleeps = 0
    /\ pc = "pwsleep" => i < Len(passwords)
    /\ (delay_between_attempts > 0 /\ i > 0) =>
          campaign_sleeps = IF pc \in {"pwsleep", "sleep_raised"} THEN i ELSE i - 1
    /\ (pc = "finished" /\ delay_between_attempts > 0 /\ passwords # <<>>) =>
          campaign_sleeps = Len(passwords) - 1

\* A campaign of two passwords with a positive delay has returned after one
\* sleep between the two passes.
C22_Witness ==
    /\ pc = "finished" /\ Len(passwords) = 2 /\ delay_between_attempts > 0
    /\ campaign_sleeps = 1
    /\ Validated(1) /\ Validated(2) /\ users # <<>>

\* ---- C23 ------------------------------------------------------------------
\* The position of the password pw in the campaign's password list.
PassOf(pw) == CHOOSE p \in Passes : passwords[p] = pw

\* C23: whenever a successful attempt is recorded, its pair is added at the
\* end of what get_successful_credentials returns, so the list is in the
\* order in which the attempts were recorded; and in that list no pair of a
\* later password stands before a pair of an earlier password.
C23_AcceptedInRecordingOrder ==
    /\ [](\A m \in 1..Len(get_successful_credentials) :
            \A n \in 1..Len(get_successful_credentials) :
               m < n => PassOf(get_successful_credentials[m][2])
                           <= PassOf(get_successful_credentials[n][2]))
    /\ [][successful_credentials' # successful_credentials =>
            \E pk \in AllFutures :
               /\ futures[pk[1]][pk[2]].state = "locked"
               /\ futures'[pk[1]][pk[2]].state = "finished"
               /\ get_successful_credentials' =
                     Append(get_successful_credentials,
                            <<users[pk[2]], passwords[pk[1]]>>)]_vars

\* bob's login was recorded before alice's, although alice comes first in
\* the user list; and a second pass added its pair behind them.
C23_Witness ==
    /\ Len(passwords) = 2 /\ Len(users) = 2
    /\ get_successful_credentials =
          << <<users[2], passwords[1]>>, <<users[1], passwords[1]>>,
             <<users[1], passwords[2]>> >>

SubmittedIn(p) == InState(p, FutureStates \ {"unsubmitted"})

\* C25: a pass whose endpoint validation failed (malformed URL, or the probe
\* raised RequestException) has returned the all-zero dict, has submitted no
\* attempt and has put no record in any list; the campaign returns only
\* after the pass of the last password, so such a pass does not end it.
C25_ValidationFailureSkipsPass ==
    /\ \A p \in Passes :
         Aborted(p) =>
            /\ summary[p] = ZeroSummary
            /\ SubmittedIn(p) = {}
            /\ RecordsWith(successful_credentials, passwords[p]) = 0
            /\ RecordsWith(failed_attempts, passwords[p]) = 0
            /\ RecordsWith(errors, passwords[p]) = 0
            /\ BucketTotal = Cardinality({pk \in FuturesIn({"finished"}) : pk[1] # p})
    /\ pc = "finished" =>
         /\ i = Len(passwords)
         /\ \A p \in Passes : PassReturned(p)

\* The probe of the first pass failed, the campaign went on, and the second
\* pass recorded both users; the totals are those of the second pass.
C25_Witness ==
    /\ pc = "finished" /\ Len(passwords) = 2 /\ Len(users) = 2
    /\ UrlWellFormed(url) /\ Aborted(1) /\ Validated(2)
    /\ summary[1] = ZeroSummary /\ SummaryTotal(summary[2]) = 2
    /\ total_results = summary[2]

\* ---- C26 ------------------------------------------------------------------
\* Every attempt of pass p has finished and is recorded, and no worker is
\* running, waiting for the lock or holding it.
Quiescent(p) ==
    /\ \A k \in UserIdx :
          /\ futures[p][k].state = "finished"
          /\ RecordsFor(users[k], passwords[p]) = 1
    /\ lock = <<>>
    /\ BusyWorkers = {}

\* C26: password_spray begins to read the lengths for its summary only in a
\* quiescent pass, and the pass stays quiescent while the three lengths are
\* read.
C26_QuiescentAtSummary ==
    /\ [][pc' = "calc_failed" => Quiescent(i)]_vars
    /\ [](pc \in {"calc_failed", "calc_error"} => Quiescent(i))

\* The lengths are being read at the end of a second pass over two users
\* that ran on two threads.
C26_Witness ==
    /\ pc = "calc_error" /\ i = 2 /\ Len(users) = 2 /\ max_threads = 2
    /\ Quiescent(2)
    /\ new_success_count = 1 /\ new_failed_count = 1

\* ---- C27 ------------------------------------------------------------------
\* C27: with a positive delay the collecting thread has slept once for every
\* result it has taken from as_completed, which makes len(users) sleeps when
\* the loop of a pass has ended, the last result included; with delay 0 it
\* never sleeps; and only a step of the collecting thread, taking a result,
\* starts a sleep: no worker step does.
C27_CollectorSleepsPerResult ==
    /\ [](\A p \in Passes :
            /\ delay_between_attempts = 0 => pass_sleeps[p] = 0
            /\ (delay_between_attempts > 0 /\ i = p
                   /\ pc \in {"submit", "collect", "sleep"}) =>
                  pass_sleeps[p] = collected
            /\ (delay_between_attempts > 0 /\ PassReturned(p) /\ Validated(p)) =>
                  pass_sleeps[p] = Len(users)
            /\ Aborted(p) => pass_sleeps[p] = 0)
    /\ [][pass_sleeps' # pass_sleeps =>
            /\ pc = "collect" /\ pc' = "sleep"
            /\ collected' = collected + 1
            /\ futures' = futures]_vars

\* A pass over three users returned after three sleeps of the collector.
C27_Witness ==
    /\ pc = "accumulate" /\ i = 1 /\ Validated(1)
    /\ Len(users) = 3 /\ delay_between_attempts > 0
    /\ pass_sleeps[1] = 3

\* ---- C28 ------------------------------------------------------------------
\* C28: every record of successful_credentials has success True and status
\* code 200; every record of failed_attempts has success False, status code
\* 401 and no error message; every record of errors has success False, an
\* error message, and a status code other than 200 and 401, which is 0
\* exactly when session.get raised.
C28_BucketMatchesRecord ==
    /\ \A n \in 1..Len(successful_credentials) :
          /\ successful_credentials[n].success = TRUE
          /\ successful_credentials[n].status_code = HTTP_AUTH_SUCCEED_CODE
    /\ \A n \in 1..Len(failed_attempts) :
          /\ failed_attempts[n].success = FALSE
          /\ failed_attempts[n].status_code = HTTP_AUTH_FAILED_CODE
          /\ failed_attempts[n].error_message = None
    /\ \A n \in 1..Len(errors) :
          /\ errors[n].success = FALSE
          /\ errors[n].error_message # None
          /\ errors[n].status_code
                \notin {HTTP_AUTH_SUCCEED_CODE, HTTP_AUTH_FAILED_CODE}
          /\ \A pk \in AllFutures :
                (/\ users[pk[2]] = errors[n].username
                 /\ passwords[pk[1]] = errors[n].password) =>
                    (errors[n].status_code = 0 <=> IsFault(futures[pk[1]][pk[2]].raw))

\* All three lists are filled, errors with one record of an unexpected
\* status code and one of an exception.
C28_Witness ==
    /\ Len(successful_credentials) = 1 /\ Len(failed_attempts) = 1
    /\ Len(errors) = 2
    /\ errors[1].status_code = HTTP_FORBIDDEN_CODE
    /\ errors[2].status_code = 0
    /\ errors[2].error_message = "unexpected failure"

\* ---- main: the command-line flow -------------------------------------------
\* "if not args.password": None and the empty string both count as absent.
Truthy(x) == x \notin {None, ""}

\* str.strip() and str.lower() on the strings used here.
Strip(line) ==
    CASE line = " alice " -> "alice"
      [] line = "   " -> ""
      [] line = "Winter2024! " -> "Winter2024!"
      [] OTHER -> line
Lower(text) ==
    CASE text = "Y" -> "y"
      [] text = "NO" -> "no"
      [] OTHER -> text

\* What the operator can type at the prompt of line 518.
Answers == {"yes", "Y", "no", "NO", "", " yes"}

\* Files: missing or unreadable, empty, blank lines only, or with entries.
MissingFile == [found |-> FALSE, lines |-> <<>>]
UsersFiles ==
    {MissingFile,
     [found |-> TRUE, lines |-> <<>>],
     [found |-> TRUE, lines |-> <<"   ", "">>],
     [found |-> TRUE, lines |-> <<"alice">>],
     [found |-> TRUE, lines |-> <<" alice ", "", "bob">>]}
PasswordsFiles ==
    {MissingFile,
     [found |-> TRUE, lines |-> <<>>],
     [found |-> TRUE, lines |-> <<"", "   ">>],
     [found |-> TRUE, lines |-> <<"Summer2024!">>],
     [found |-> TRUE, lines |-> <<"Summer2024!", "   ", "Winter2024! ">>]}

\* load_usernames_from_file and load_passwords_from_file, lines 408-451:
\* the stripped non-blank lines, or [] when the file cannot be read.
LoadLines(file) ==
    IF ~file.found THEN <<>>
    ELSE SelectSeq([n \in 1..Len(file.lines) |-> Strip(file.lines[n])],
                   LAMBDA line : line # "")
load_usernames_from_file(file) == LoadLines(file)
load_passwords_from_file(file) == LoadLines(file)

\* Mutant: every answer but "no" is taken for a yes.
Authorized_NotNo(answer) == Lower(answer) # "no"

\* line 519: response.lower() in ['yes', 'y']
Authorized(answer) == Lower(answer) \in {"yes", "y"}

\* The command line was parsed; nothing else has happened.
InitMain ==
    /\ args \in [password : {None, "", "Summer2024!"},
                 passwords : {None, "", "passwords.txt"}]
    /\ usernames = <<>>
    /\ response = None
    /\ main_pc = "parse_args"
    /\ cli_log = <<>>
    /\ users = <<>>
    /\ passwords = <<>>
    /\ url \in Urls
    /\ delay_between_attempts \in {0, MaxDelay}
    /\ max_threads = 1
    /\ successful_credentials = <<>>
    /\ failed_attempts = <<>>
    /\ errors = <<>>
    /\ lock = <<>>
    /\ futures = <<>>
    /\ pc = "not_constructed"
    /\ i = 0
    /\ collected = 0
    /\ initial_success_count = 0
    /\ initial_failed_count = 0
    /\ initial_error_count = 0
    /\ summary = <<>>
    /\ total_results = ZeroSummary
    /\ sleep_left = 0
    /\ since_completion = delay_between_attempts
    /\ probe_kind = <<>>
    /\ auth_calls = <<>>
    /\ new_success_count = 0
    /\ new_failed_count = 0
    /\ snapshot_points = {}
    /\ report = NoReport
    /\ pass_sleeps = <<>>
    /\ campaign_sleeps = 0
    /\ session_cookies = {}

\* Everything that belongs to the NTLMPasswordSprayer object and its run.
sprayer == <<config, buckets, lock, futures, pc, i, collected, initial_counts,
             summary, total_results, clock, probe_kind, auth_calls, snap,
             report, sleeps, session_cookies>>

\* lines 497-502: parser.error (exit status 2) unless exactly one of
\* args.password and args.passwords is set.
ParseArgs ==
    /\ main_pc = "parse_args"
    /\ IF ~Truthy(args.password) /\ ~Truthy(args.passwords)
       THEN main_pc' = "exit_2" /\ cli_log' = cli_log
       ELSE IF Truthy(args.password) /\ Truthy(args.passwords)
       THEN main_pc' = "exit_2" /\ cli_log' = cli_log
       ELSE main_pc' = "load_users" /\ cli_log' = Append(cli_log, "args_checked")
    /\ UNCHANGED <<sprayer, args, usernames, response>>

\* lines 504-508: the username file is loaded; exit(1) when it gave nothing.
LoadUsers ==
    /\ main_pc = "load_users"
    /\ \E file \in UsersFiles :
         /\ usernames' = load_usernames_from_file(file)
         /\ IF usernames' = <<>>
            THEN main_pc' = "exit_1" /\ cli_log' = cli_log
            ELSE main_pc' = "prompt" /\ cli_log' = Append(cli_log, "users_loaded")
    /\ UNCHANGED <<sprayer, args, response>>

\* lines 510-522: the warning, the question, and exit(0) unless the answer
\* is a yes.
Prompt ==
    /\ main_pc = "prompt"
    /\ \E answer \in Answers :
         /\ response' = answer
         /\ IF Authorized(answer)
            THEN main_pc' = "construct" /\ cli_log' = Append(cli_log, "authorized")
            ELSE main_pc' = "exit_0" /\ cli_log' = cli_log
    /\ UNCHANGED <<sprayer, args, usernames>>

\* lines 524-532: NTLMPasswordSprayer(users=usernames, ...).
ConstructSprayer ==
    /\ main_pc = "construct"
    /\ users' = usernames
    /\ main_pc' = "dispatch"
    /\ UNCHANGED <<passwords, url, delay_between_attempts, max_threads, buckets,
                   lock, futures, pc, i, collected, initial_counts, summary,
                   total_results, clock, probe_kind, auth_calls, snap, report,
                   sleeps, session_cookies, args, usernames, response, cli_log>>

\* The run over the password list pws begins at the program counter at.
BeginRun(pws, at) ==
    /\ passwords' = pws
    /\ futures' = [p \in 1..Len(pws) |-> [k \in UserIdx |->
                      [state |-> "unsubmitted", raw |-> NoRaw]]]
    /\ summary' = [p \in 1..Len(pws) |-> ZeroSummary]
    /\ probe_kind' = [p \in 1..Len(pws) |-> "none"]
    /\ auth_calls' = [p \in 1..Len(pws) |-> [k \in UserIdx |-> 0]]
    /\ pass_sleeps' = [p \in 1..Len(pws) |-> 0]
    /\ pc' = at
    /\ i' = IF at = "spray" THEN 1 ELSE 0

\* lines 534-545: with args.password, password_spray is called with it;
\* otherwise the password file is loaded and, unless it gave nothing
\* (exit(1)), spray_multiple_passwords is called with the list.
Dispatch ==
    /\ main_pc = "dispatch"
    /\ IF Truthy(args.password)
       THEN /\ BeginRun(<<args.password>>, "spray")
            /\ main_pc' = "running"
            /\ cli_log' = cli_log
       ELSE \E file \in PasswordsFiles :
              IF load_passwords_from_file(file) = <<>>
              THEN /\ main_pc' = "exit_1"
                   /\ cli_log' = cli_log
                   /\ UNCHANGED <<passwords, futures, summary, probe_kind,
                                  auth_calls, pass_sleeps, pc, i>>
              ELSE /\ BeginRun(load_passwords_from_file(file), "start")
                   /\ main_pc' = "running"
                   /\ cli_log' = Append(cli_log, "passwords_loaded")
    /\ UNCHANGED <<users, url, delay_between_attempts, max_threads, buckets,
                   lock, collected, initial_counts, total_results, clock, snap,
                   report, campaign_sleeps, session_cookies, args, usernames,
                   response>>

NextMain ==
    \/ ParseArgs
    \/ LoadUsers
    \/ Prompt
    \/ ConstructSprayer
    \/ Dispatch
    \/ Next
    \/ ExportResults

SpecMain == InitMain /\ [][NextMain]_vars

\* ---- C29 ------------------------------------------------------------------
\* The endpoint was probed or an authentication call was made.
NetworkUsed ==
    \/ \E p \in Passes : probe_kind[p] # "none"
    \/ \E pk \in AllFutures : auth_calls[pk[1]][pk[2]] > 0

\* C29: when the endpoint was probed or a login attempted, main has checked
\* that exactly one of args.password and args.passwords is set, then loaded
\* at least one username, then got a yes ('yes' or 'y', in any case of
\* letters) at the prompt, in this order, and, when the passwords come from a
\* file, has after that loaded at least one password from it.
C29_NoRequestBeforeChecks ==
    NetworkUsed =>
        /\ Truthy(args.password) # Truthy(args.passwords)
        /\ usernames # <<>> /\ users = usernames
        /\ Lower(response) \in {"yes", "y"}
        /\ passwords # <<>>
        /\ cli_log = IF Truthy(args.password)
                     THEN <<"args_checked", "users_loaded", "authorized">>
                     ELSE <<"args_checked", "users_loaded", "authorized",
                            "passwords_loaded">>

\* With a password file of two entries, two users and the answer "Y", the
\* second user's login with the second password was attempted.
C29_Witness ==
    /\ Truthy(args.passwords) /\ response = "Y"
    /\ users = <<"alice", "bob">>
    /\ passwords = <<"Summer2024!", "Winter2024!">>
    /\ auth_calls[2][2] = 1

\* ---- runs without Ctrl-C, with threads that keep running -----------------
\* A step of the thread that called spray_multiple_passwords.
CollectorStep ==
    \/ StartCampaign
    \/ BeginPass
    \/ ReadInitialFailed
    \/ ReadInitialError
    \/ \E k \in UserIdx : Submit(k)
    \/ CollectFuture
    \/ WakeCollector
    \/ FinishPass
    \/ CalcFailed
    \/ ReturnSummary
    \/ Accumulate
    \/ NextPassword

\* A step of a worker thread of the executor; session.get returning or
\* raising (within its timeout) is one of them.
WorkerStep ==
    \/ \E p \in Passes : \E k \in UserIdx : StartAttempt(p, k)
    \/ \E p \in Passes : \E k \in UserIdx :
          \E raw \in AuthenticatorOutcomes : Respond(p, k, raw)
    \/ \E p \in Passes : \E k \in UserIdx : AcquireLock(p, k)
    \/ \E p \in Passes : \E k \in UserIdx : AppendRelease(p, k)

NextRun == CollectorStep \/ WorkerStep \/ Tick

\* The main thread and the workers are scheduled as long as they can take a
\* step, every session.get comes back, and time passes.
SpecRun ==
    /\ Init
    /\ [][NextRun]_vars
    /\ WF_vars(CollectorStep)
    /\ WF_vars(WorkerStep)
    /\ WF_vars(Tick)

\* ---- C30 ------------------------------------------------------------------
\* C30: when no thread is held up for ever and every session.get comes back,
\* every password_spray call returns its dict and spray_multiple_passwords
\* returns its totals.
C30_CampaignReturns ==
    <>(pc = "finished" /\ \A p \in Passes : PassReturned(p))

\* A campaign of two passes over two users on two threads, with a positive
\* delay, has returned with every attempt recorded.
C30_Witness ==
    /\ pc = "finished" /\ Len(passwords) = 2 /\ Len(users) = 2
    /\ max_threads = 2 /\ delay_between_attempts > 0
    /\ Validated(1) /\ Validated(2)
    /\ BucketTotal = 4
    /\ SummaryTotal(total_results) = 4

====
